---------------------------- MODULE Spec2Model ----------------------------
(***************************************************************************)
(* Verification model of the CryptoLuck lottery bot (Zaxarich69/botbotbot).*)
(*                                                                         *)
(* The ledger (lottery_rounds, payments, tickets) is the committed content *)
(* of the database.  Every handler works in its own AsyncSession: a query  *)
(* reads the committed rows, writes stay pending in the session until      *)
(* session.commit() and are dropped by session.rollback().  Every `await`  *)
(* that touches the store is a separate step, so handlers interleave.      *)
(*                                                                         *)
(* Money is counted in units of 0.25 USD.  The environment modelled is     *)
(* TICKET_PRICE_USD=0.5, PRIZE_USD=1.0, MIN_TICKETS_PER_PAYMENT=2.         *)
(*                                                                         *)
(* The invoice returned by the payment provider is an input of the         *)
(* purchase step (the provider call itself is not part of the ledger).     *)
(***************************************************************************)
EXTENDS Integers, Sequences, FiniteSets, Bags, TLC

\* ------------------------------------------------------------------ bounds
MaxPayments   == 1      \* payment records ever created
MaxDeliveries == 2      \* IPN requests ever taken past the duplicate check
MaxTicks      == 2      \* cron fire times ever reached
MaxTicketCount == 6     \* tickets of one participant in a call of select_winner
MaxRngState   == 12     \* the random generator has states 0 .. MaxRngState
MaxClock      == 3      \* time units that pass
MaxSettlements == 2     \* calls of process_winner_payout
MaxLeftoverCents == 30  \* the leftover of a bank, in cents
MaxOwners     == 3      \* addresses in OWNER_WALLETS
MaxInvoiceCalls == 3    \* currency choices ever made in the purchase dialogue

\* ------------------------------------------------------- program constants
TICKET_PRICE_USD        == 2    \* 0.5 USD
PRIZE_USD               == 4    \* 1.0 USD
MIN_TICKETS_PER_PAYMENT == 2
max_instances_two       == 1 + 1    \* overlapping runs allowed
max_instances           == 1
coalesce                == TRUE
NumSources              == 3    \* the endpoints of _DEFAULT_APIS
retries                 == 2    \* _fetch_with_retries(client, api_url, retries=2, ...)
CACHE_TTL_SEC           == 2    \* BITCOIN_HASH_CACHE_TTL_SEC, in time units of 30 s

Users      == {1, 2}
Handlers   == {"h1", "h2"}          \* concurrent IPN requests
Menus      == {"m1", "m2"}          \* concurrent bot updates rendering the menu
Draws      == {"d1", "d2"}          \* executor slots for the draw job
PaymentIds == 1 .. MaxPayments
UnknownPaymentId == MaxPayments + 1 \* an id no payment record carries
RoundIds   == 1 .. (Cardinality(Menus) + MaxTicks)    \* ids the round sequence can hand out
NoId       == 0                     \* NULL / None

PaymentStatuses == {"waiting", "confirmed", "finished", "failed"}
TerminalSuccess == {"confirmed", "finished"}
IpnAmounts      == {1, 4}           \* price_amount of an IPN: 0.25 and 1.0 USD

\* the hashes the oracle can hand to the draw, and None
Hashes == {"aa", "bb"}
NoHash == "none"

VARIABLES
    rounds,         \* committed lottery_rounds rows
    payments,       \* committed payments rows
    tickets,        \* committed tickets rows (a bag)
    hpc, hreq, hadd, hresp,     \* IPN handler: position, request, pending tickets, response
    hsess,          \* IPN handler: the Payment status and the active round its session
                    \* loaded, and what became of its "payment received" notification
    mpc, mnew,                  \* menu rendering: position, pending round id
    dpc, dround, dtotal, dwinner, druns, doutcome,   \* draw job
    dseed,          \* draw job: how the generator was seeded ("hash", "fallback")
    due,            \* fire times reached and not yet processed by the scheduler
    deliveries, ticks,          \* counters bounding the run
    creditCommits,  \* history: committed ticket-creating transactions per payment
    settled,        \* history: settlements carried out per round
    rng,            \* state of the process-wide generator of module random
    spc, sseed,     \* winner selection: position, seed handed to random.seed
    scall,          \* winner selection: the last call of select_winner
    cache,          \* oracle: _CACHE_VALUE and _CACHE_TS
    clock,          \* oracle: time.time()
    opc, onow, osrc, oattempt,  \* oracle call: position, now, source, attempt
    olog,           \* history: the requests of the current or last oracle call
    oresult,        \* oracle: what the last call returned and from where
    receipts,       \* payout gateway: the payouts the provider has executed
    requests,       \* history: the payout requests sent to the provider
    pcall,          \* settlement: the last call of process_winner_payout
    settlements,    \* counter bounding the calls of process_winner_payout
    distribution,   \* leftover distribution: the last one, amounts in cents
    invoices        \* history: the currency choices and what create_payment returned

ledger  == <<rounds, payments, tickets>>
hvars   == <<hpc, hreq, hadd, hresp, hsess>>
mvars   == <<mpc, mnew>>
dvars   == <<dpc, dround, dtotal, dwinner, druns, doutcome, dseed>>
vars    == <<rounds, payments, tickets, hpc, hreq, hadd, hresp, hsess, mpc, mnew,
             dpc, dround, dtotal, dwinner, druns, doutcome, dseed, due, deliveries,
             ticks, creditCommits, settled, rng, spc, sseed, scall,
             cache, clock, opc, onow, osrc, oattempt, olog, oresult,
             receipts, requests, pcall, settlements, distribution, invoices>>
svars   == <<rng, spc, sseed, scall>>
ovars   == <<cache, clock, opc, onow, osrc, oattempt, olog, oresult>>
pvars   == <<receipts, requests, pcall, settlements>>
qvars   == <<distribution, invoices>>
xvars   == <<svars, ovars, pvars, qvars>>

\* ------------------------------------------------------------------ store
\* LotteryRound(prize_amount=PRIZE_USD): is_active defaults to True, status to "active"
NewRound(id, prize) ==
    [id |-> id, is_active |-> TRUE, status |-> "active",
     winner_id |-> NoId, prize_amount |-> prize]

\* Payment(..., status="waiting")
NewPayment(pid, user_id, round_id, amount_usd) ==
    [id |-> pid, user_id |-> user_id, round_id |-> round_id,
     amount_usd |-> amount_usd, status |-> "waiting"]

\* Ticket(user_id, round_id); pay is a history field naming the crediting payment
NewTicket(user_id, round_id, pid) ==
    [user_id |-> user_id, round_id |-> round_id, pay |-> pid]

\* select(LotteryRound).where(LotteryRound.is_active)
ActiveRounds(rs) == {r \in rs : r.is_active}

\* select(Payment).where(Payment.nowpayments_payment_id == pid)
PaymentRows(ps, pid) == {p \in ps : p.id = pid}

RECURSIVE SumAmounts(_)
SumAmounts(ps) ==
    IF ps = {} THEN 0
    ELSE LET p == CHOOSE x \in ps : TRUE
         IN  p.amount_usd + SumAmounts(ps \ {p})

\* sum(Payment.amount_usd) where round_id = r and status == "confirmed"
get_round_total_collected(ps, round_id) ==
    SumAmounts({p \in ps : p.round_id = round_id /\ p.status = "confirmed"})

\* count(Ticket.id) where round_id = r and user_id = u
TicketCount(ts, user_id, round_id) ==
    LET rows == {t \in BagToSet(ts) : t.user_id = user_id /\ t.round_id = round_id}
    IN  BagCardinality([t \in rows |-> CopiesIn(t, ts)])

\* the users of the groups of get_round_participants (group_by user_id)
ParticipantUsers(ts, round_id) ==
    {u \in Users : TicketCount(ts, u, round_id) > 0}

\* history: tickets committed for one payment
TicketsOfPayment(ts, pid) ==
    LET rows == {t \in BagToSet(ts) : t.pay = pid}
    IN  BagCardinality([t \in rows |-> CopiesIn(t, ts)])

\* tickets = [Ticket(user_id, round_id) for _ in range(ticket_count)]
add_tickets_for_payment(ts, user_id, round_id, pid, ticket_count) ==
    IF ticket_count <= 0 THEN ts
    ELSE ts (+) [t \in {NewTicket(user_id, round_id, pid)} |-> ticket_count]

\* payment.status = new_status
update_payment_status(ps, pid, new_status) ==
    {IF p.id = pid THEN [p EXCEPT !.status = new_status] ELSE p : p \in ps}


\* ------------------------------------------------------------------- init
NoReq == [payment_id |-> NoId, payment_status |-> "", price_amount |-> 0]

\* a session that has loaded nothing
NoSess == [status |-> "", active_round |-> NoId, notified |-> "none"]

\* no request, update or job is in progress, nothing was called yet
InitProcesses ==
    /\ hpc = [h \in Handlers |-> "idle"]
    /\ hreq = [h \in Handlers |-> NoReq]
    /\ hadd = [h \in Handlers |-> 0]
    /\ hresp = [h \in Handlers |-> "none"]
    /\ hsess = [h \in Handlers |-> NoSess]
    /\ mpc = [m \in Menus |-> "idle"]
    /\ mnew = [m \in Menus |-> NoId]
    /\ dpc = [d \in Draws |-> "idle"]
    /\ dround = [d \in Draws |-> NoId]
    /\ dtotal = [d \in Draws |-> 0]
    /\ dwinner = [d \in Draws |-> NoId]
    /\ druns = [d \in Draws |-> 0]
    /\ doutcome = [d \in Draws |-> "none"]
    /\ dseed = [d \in Draws |-> ""]
    /\ due = 0
    /\ deliveries = 0
    /\ ticks = 0
    /\ creditCommits = [p \in PaymentIds |-> 0]
    /\ settled = [r \in RoundIds |-> 0]
    /\ rng = [known |-> FALSE, state |-> 0]
    /\ spc = "idle"
    /\ sseed = "none"
    /\ scall = [seed |-> "none", participants |-> <<>>, win_index |-> 0,
                raised |-> "", winner |-> 0, repeated |-> FALSE]
    /\ cache = [value |-> "none", ts |-> 0]
    /\ clock = 0
    /\ opc = "idle"
    /\ onow = 0
    /\ osrc = 0
    /\ oattempt = 0
    /\ olog = <<>>
    /\ oresult = [value |-> "none", from |-> "none"]
    /\ receipts = {}
    /\ requests = {}
    /\ pcall = [round_id |-> 0, winner |-> 0, env |-> "", wallets |-> <<>>,
                wallet |-> "", path |-> "none", winner_res |-> "none",
                sent |-> <<>>, resent |-> {}, manual |-> FALSE,
                delivered |-> FALSE, raised |-> FALSE]
    /\ settlements = 0
    /\ distribution = [leftover |-> 0, owners |-> 0, share |-> 0, sent |-> 0]
    /\ invoices = {}

\* init_db() creates the tables and inserts no row
Init ==
    /\ rounds = {}
    /\ payments = {}
    /\ tickets = EmptyBag
    /\ InitProcesses

\* lottery_rounds.id is an integer primary key: a flushed insert gets an id
\* that no committed or pending row uses (the first free one)
NextRoundId ==
    LET used == {r.id : r \in rounds} \cup {mnew[m] : m \in Menus}
        free == RoundIds \ used
    IN  CHOOSE x \in free : \A y \in free : x <= y

\* ------------------------------------------------- main menu (bot update)
\* send_main_menu -> get_or_create_active_round: select the active round,
\* and when there is none add LotteryRound(prize_amount=PRIZE_USD) and flush
MenuGetOrCreate(m) ==
    /\ mpc[m] = "idle"
    /\ mpc' = [mpc EXCEPT ![m] = "rendering"]
    /\ IF ActiveRounds(rounds) = {}
       THEN mnew' = [mnew EXCEPT ![m] = NextRoundId]
       ELSE UNCHANGED mnew
    /\ UNCHANGED <<ledger, hvars, dvars, due, deliveries, ticks, creditCommits, settled>>
    /\ UNCHANGED xvars

\* DbSessionMiddleware: session.begin() commits when the handler returns
MenuCommit(m) ==
    /\ mpc[m] = "rendering"
    /\ rounds' = IF mnew[m] = NoId THEN rounds
                 ELSE rounds \cup {NewRound(mnew[m], PRIZE_USD)}
    /\ mpc' = [mpc EXCEPT ![m] = "idle"]
    /\ mnew' = [mnew EXCEPT ![m] = NoId]
    /\ UNCHANGED <<payments, tickets, hvars, dvars, due,
                   deliveries, ticks, creditCommits, settled>>
    /\ UNCHANGED xvars

\* DbSessionMiddleware: session.begin() rolls back when the handler raises
MenuRollback(m) ==
    /\ mpc[m] = "rendering"
    /\ mpc' = [mpc EXCEPT ![m] = "idle"]
    /\ mnew' = [mnew EXCEPT ![m] = NoId]
    /\ UNCHANGED <<ledger, hvars, dvars, due, deliveries, ticks,
                   creditCommits, settled>>
    /\ UNCHANGED xvars

\* ------------------------------------------------------ ticket purchase
\* process_currency_choice: amount = min_tickets * ticket_price
PaymentAmount == MIN_TICKETS_PER_PAYMENT * TICKET_PRICE_USD

\* process_currency_choice: get_active_round, the provider's invoice
\* (payment_info), create_payment_record; the middleware commits
Purchase(u) ==
    /\ Cardinality(payments) < MaxPayments
    /\ \E r \in ActiveRounds(rounds) :
          payments' = payments \cup
              {NewPayment(Cardinality(payments) + 1, u, r.id, PaymentAmount)}
    /\ UNCHANGED <<rounds, tickets, hvars, mvars, dvars, due,
                   deliveries, ticks, creditCommits, settled>>
    /\ UNCHANGED xvars

\* ---------------------------------------------------------- IPN handler
\* the duplicate check left out
IsDuplicateNever(status) == FALSE

\* if payment.status in {"confirmed", "finished"}: ignore the duplicate
IsDuplicate(status) == status \in TerminalSuccess

\* a ticket count that rounds up
TicketCountRoundedUp(price_amount) ==
    (price_amount + TICKET_PRICE_USD - 1) \div TICKET_PRICE_USD

\* ticket_count = int(price_amount / ticket_price)
TicketCountFor(price_amount) == price_amount \div TICKET_PRICE_USD

\* an IPN request: the configured secret, the x-nowpayments-sig header, the
\* body (whether it parses and what it carries)
IpnRequest(secret, signature, json, pid, st, amt, numeric) ==
    [secret |-> secret, signature |-> signature, json |-> json,
     payment_id |-> pid, payment_status |-> st, price_amount |-> amt,
     numeric |-> numeric]

\* requests that pass every check made before the store is read
WellFormedRequests ==
    {IpnRequest(TRUE, "valid", TRUE, pid, st, amt, TRUE) :
        pid \in PaymentIds \cup {UnknownPaymentId},
        st \in PaymentStatuses,
        amt \in IpnAmounts}

\* requests with one defect each: NOWPAYMENTS_IPN_SECRET unset, no signature
\* header, a wrong signature, a body that is not JSON, a missing (falsy)
\* payment_id / payment_status / price_amount, a price_amount that is no number
MalformedRequests ==
    {IpnRequest(FALSE, "valid", TRUE, 1, "confirmed", 4, TRUE),
     IpnRequest(TRUE, "none", TRUE, 1, "confirmed", 4, TRUE),
     IpnRequest(TRUE, "invalid", TRUE, 1, "confirmed", 4, TRUE),
     IpnRequest(TRUE, "valid", FALSE, 1, "confirmed", 4, TRUE),
     IpnRequest(TRUE, "valid", TRUE, NoId, "confirmed", 4, TRUE),
     IpnRequest(TRUE, "valid", TRUE, 1, "", 4, TRUE),
     IpnRequest(TRUE, "valid", TRUE, 1, "confirmed", 0, TRUE),
     IpnRequest(TRUE, "valid", TRUE, 1, "confirmed", 4, FALSE)}

\* verify_ipn_signature: False without a secret, False without a signature,
\* else hmac.compare_digest(expected, signature)
verify_ipn_signature(secret, signature) ==
    IF ~secret THEN FALSE
    ELSE IF signature = "none" THEN FALSE
    ELSE signature = "valid"

\* the checks of handle_nowpayments_ipn before the session is opened: the
\* HTTP status they raise, or "ok"
Validate(req) ==
    IF ~verify_ipn_signature(req.secret, req.signature) THEN "400"
    ELSE IF ~req.json THEN "400"
    ELSE IF req.payment_id = NoId \/ req.payment_status = "" \/ req.price_amount = 0
         THEN "400"
    ELSE IF ~req.numeric THEN "400"
    ELSE "ok"

\* a rejection raised only after the status of the request was written
RejectAfterUpdate(h, code, req) ==
    /\ hresp' = [hresp EXCEPT ![h] = code]
    /\ payments' = update_payment_status(payments, req.payment_id, req.payment_status)
    /\ UNCHANGED <<rounds, tickets, hpc, hreq, hadd, hsess, deliveries>>

\* raise HTTPException(status_code=code): nothing was written, and a
\* session that was opened is rolled back
Reject(h, code, req) ==
    /\ hresp' = [hresp EXCEPT ![h] = code]
    /\ UNCHANGED <<ledger, hpc, hreq, hadd, hsess, deliveries>>

\* handle_nowpayments_ipn up to update_payment_status: the request is
\* validated, the payment is selected, a duplicate is ignored, and the new
\* status is set on the session's Payment object
IpnBegin(h) ==
    /\ hpc[h] = "idle"
    /\ \E req \in MalformedRequests \cup WellFormedRequests :
          IF Validate(req) # "ok"
          THEN Reject(h, Validate(req), req)
          ELSE IF PaymentRows(payments, req.payment_id) = {}
          THEN Reject(h, "404", req)
          ELSE LET payment == CHOOSE p \in PaymentRows(payments, req.payment_id) : TRUE IN
               IF IsDuplicate(payment.status)
               THEN \* logged as a duplicate and answered {"ok": True}
                    /\ hresp' = [hresp EXCEPT ![h] = "duplicate"]
                    /\ UNCHANGED <<ledger, hpc, hreq, hadd, hsess, deliveries>>
               ELSE /\ deliveries < MaxDeliveries
                    /\ deliveries' = deliveries + 1
                    /\ hpc' = [hpc EXCEPT ![h] = "updated"]
                    /\ hreq' = [hreq EXCEPT ![h] =
                                  [payment_id |-> req.payment_id,
                                   payment_status |-> req.payment_status,
                                   price_amount |-> req.price_amount]]
                    /\ hsess' = [hsess EXCEPT ![h] =
                                   [status |-> payment.status, active_round |-> NoId,
                                    notified |-> "none"]]
                    /\ hresp' = [hresp EXCEPT ![h] = "none"]
                    /\ UNCHANGED <<ledger, hadd>>
    /\ UNCHANGED <<mvars, dvars, due, ticks, creditCommits, settled>>
    /\ UNCHANGED xvars

\* a round check that accepts every round
RoundMatchesAlways(active_round_id, payment) == TRUE

\* not (not active_round or active_round.id != payment.round_id)
RoundMatches(active_round_id, payment) ==
    active_round_id # NoId /\ active_round_id = payment.round_id

\* get_active_round(session): the id of the first active row, None without one
ActiveRoundIds(rs) ==
    IF ActiveRounds(rs) = {} THEN {NoId} ELSE {r.id : r \in ActiveRounds(rs)}

\* what bot.send_message comes to
NotificationOutcomes == {"sent", "failed"}

\* a confirmation whose failure is raised to the handler, which rolls back
send_payment_confirmation_raising(h, outcome, ticket_count) ==
    IF outcome = "failed"
    THEN [pc |-> "idle", add |-> 0, resp |-> "500"]
    ELSE [pc |-> "processed", add |-> ticket_count, resp |-> hresp[h]]

\* send_payment_confirmation: try: ... await bot.send_message(...)
\* except Exception: log.exception(...); the handler goes on to its commit
send_payment_confirmation(h, outcome, ticket_count) ==
    [pc |-> "processed", add |-> ticket_count, resp |-> hresp[h]]

\* process_confirmed_payment: the ticket count, the active-round check,
\* add_tickets (pending in the session) and the notification
IpnProcess(h) ==
    /\ hpc[h] = "updated"
    /\ LET payment == CHOOSE p \in PaymentRows(payments, hreq[h].payment_id) : TRUE
           ticket_count == TicketCountFor(hreq[h].price_amount)
       IN  IF hreq[h].payment_status \notin TerminalSuccess \/ ticket_count <= 0
           THEN /\ hpc' = [hpc EXCEPT ![h] = "processed"]
                /\ UNCHANGED <<hadd, hsess, hresp>>
           ELSE \E active_round_id \in ActiveRoundIds(rounds) :
                   IF RoundMatches(active_round_id, payment)
                   THEN \E outcome \in NotificationOutcomes :
                           LET after == send_payment_confirmation(h, outcome, ticket_count) IN
                           /\ hsess' = [hsess EXCEPT ![h].active_round = active_round_id,
                                                     ![h].notified = outcome]
                           /\ hpc' = [hpc EXCEPT ![h] = after.pc]
                           /\ hadd' = [hadd EXCEPT ![h] = after.add]
                           /\ hresp' = [hresp EXCEPT ![h] = after.resp]
                   ELSE /\ hsess' = [hsess EXCEPT ![h].active_round = active_round_id]
                        /\ hpc' = [hpc EXCEPT ![h] = "processed"]
                        /\ hadd' = [hadd EXCEPT ![h] = 0]
                        /\ UNCHANGED hresp
    /\ UNCHANGED <<ledger, hreq, mvars, dvars, due,
                   deliveries, ticks, creditCommits, settled>>
    /\ UNCHANGED xvars

\* the UPDATE a commit emits for the session's Payment object: only an
\* attribute whose value differs from the loaded one is written
FlushStatus(ps, pid, loaded_status, new_status) ==
    IF new_status = loaded_status THEN ps
    ELSE update_payment_status(ps, pid, new_status)

\* await session.commit(): the status and the tickets become visible
IpnCommit(h) ==
    /\ hpc[h] = "processed"
    /\ LET pid == hreq[h].payment_id
           payment == CHOOSE p \in PaymentRows(payments, pid) : TRUE
       IN  /\ payments' = FlushStatus(payments, pid, hsess[h].status,
                                      hreq[h].payment_status)
           /\ tickets' = add_tickets_for_payment(tickets, payment.user_id,
                                                 payment.round_id, pid, hadd[h])
           /\ creditCommits' = [creditCommits EXCEPT ![pid] =
                                  IF hadd[h] > 0 THEN @ + 1 ELSE @]
    /\ hpc' = [hpc EXCEPT ![h] = "idle"]
    /\ hreq' = [hreq EXCEPT ![h] = NoReq]
    /\ hadd' = [hadd EXCEPT ![h] = 0]
    /\ hsess' = [hsess EXCEPT ![h] = NoSess]
    /\ hresp' = [hresp EXCEPT ![h] = "ok"]
    /\ UNCHANGED <<rounds, mvars, dvars, due, deliveries, ticks,
                    settled>>
    /\ UNCHANGED xvars

\* except Exception: await session.rollback(); raise  (answered 500)
IpnRollback(h) ==
    /\ hpc[h] \in {"updated", "processed"}
    /\ hpc' = [hpc EXCEPT ![h] = "idle"]
    /\ hreq' = [hreq EXCEPT ![h] = NoReq]
    /\ hadd' = [hadd EXCEPT ![h] = 0]
    /\ hsess' = [hsess EXCEPT ![h] = NoSess]
    /\ hresp' = [hresp EXCEPT ![h] = "500"]
    /\ UNCHANGED <<ledger, mvars, dvars, due, deliveries, ticks,
                   creditCommits, settled>>
    /\ UNCHANGED xvars


\* --------------------------------------------------------------- the draw
\* from services.storage import finish_round, create_new_round: storage.py
\* defines neither, the ImportError is caught and both names are None
finish_round_available     == FALSE
create_new_round_available == FALSE

\* a strict threshold: a bank equal to the prize rolls over
BankNotMetStrict(total_collected, prize_usd) == total_collected <= prize_usd

\* if total_collected < prize_usd: roll over
BankNotMet(total_collected, prize_usd) == total_collected < prize_usd

\* the orders in which the store may return the groups (no ORDER BY)
Orderings(S) ==
    {f \in [1 .. Cardinality(S) -> S] : \A i, j \in DOMAIN f : i # j => f[i] # f[j]}

\* get_round_participants: one (user_id, count) row per user with tickets
get_round_participants(ts, round_id) ==
    {[i \in DOMAIN f |-> <<f[i], TicketCount(ts, f[i], round_id)>>] :
        f \in Orderings(ParticipantUsers(ts, round_id))}

RECURSIVE SumCounts(_)
SumCounts(participants) ==
    IF participants = <<>> THEN 0
    ELSE Head(participants)[2] + SumCounts(Tail(participants))

\* a walk that also stops on the index equal to the cumulative count
RECURSIVE WalkWinnerInclusive(_, _, _)
WalkWinnerInclusive(participants, win_index, current) ==
    IF participants = <<>> THEN NoId
    ELSE LET c == current + Head(participants)[2]
         IN  IF win_index <= c THEN Head(participants)[1]
             ELSE WalkWinnerInclusive(Tail(participants), win_index, c)

RECURSIVE WalkWinner(_, _, _)
\* for user_id, ticket_count in participants: current += ticket_count;
\* if win_index < current: return user_id
WalkWinner(participants, win_index, current) ==
    IF participants = <<>> THEN NoId
    ELSE LET c == current + Head(participants)[2]
         IN  IF win_index < c THEN Head(participants)[1]
             ELSE WalkWinner(Tail(participants), win_index, c)

\* select_winner after win_index = random.randrange(total_tickets)
select_winner(participants, win_index) ==
    LET w == WalkWinner(participants, win_index, 0)
    IN  IF w = NoId THEN participants[1][1] ELSE w

\* the end of one run of the job: the executor runs the next run time of the
\* submitted list, or releases the instance
EndRun(d, outcome) ==
    /\ dpc' = [dpc EXCEPT ![d] = IF druns[d] > 1 THEN "start" ELSE "idle"]
    /\ druns' = [druns EXCEPT ![d] = @ - 1]
    /\ doutcome' = [doutcome EXCEPT ![d] = outcome]
    /\ dseed' = [dseed EXCEPT ![d] = ""]
    /\ dround' = [dround EXCEPT ![d] = NoId]
    /\ dtotal' = [dtotal EXCEPT ![d] = 0]
    /\ dwinner' = [dwinner EXCEPT ![d] = NoId]

\* a draw that gives up when the oracle delivers no hash
DrawSeedBlocking(d) ==
    /\ dpc[d] = "start"
    /\ \E btc_hash \in Hashes \cup {NoHash} :
          IF btc_hash = NoHash
          THEN EndRun(d, "failed")
          ELSE /\ dpc' = [dpc EXCEPT ![d] = "seeded"]
               /\ dseed' = [dseed EXCEPT ![d] = "hash"]
               /\ UNCHANGED <<dround, dtotal, dwinner, druns, doutcome>>
    /\ UNCHANGED <<ledger, hvars, mvars, due, deliveries, ticks,
                   creditCommits, settled>>
    /\ UNCHANGED xvars

\* btc_hash = await get_latest_bitcoin_block_hash(); without a hash
\* random.seed(), else random.seed(btc_hash)
DrawSeed(d) ==
    /\ dpc[d] = "start"
    /\ dpc' = [dpc EXCEPT ![d] = "seeded"]
    /\ \E btc_hash \in Hashes \cup {NoHash} :
          dseed' = [dseed EXCEPT ![d] =
                      IF btc_hash = NoHash THEN "fallback" ELSE "hash"]
    /\ UNCHANGED <<ledger, hvars, mvars, dround, dtotal, dwinner, druns,
                   doutcome, due, deliveries, ticks,
                   creditCommits, settled>>
    /\ UNCHANGED xvars

\* active_round = await get_active_round(session); without an active round
\* create_new_round is called when it is available, and the draw returns
DrawLoadRound(d) ==
    /\ dpc[d] = "seeded"
    /\ \/ /\ ActiveRounds(rounds) = {}
          /\ IF create_new_round_available
             THEN rounds' = rounds \cup {NewRound(NextRoundId, PRIZE_USD)}
             ELSE UNCHANGED rounds
          /\ EndRun(d, "no_round")
       \/ /\ \E active_round \in ActiveRounds(rounds) :
                dround' = [dround EXCEPT ![d] = active_round.id]
          /\ dpc' = [dpc EXCEPT ![d] = "loaded"]
          /\ UNCHANGED <<rounds, dtotal, dwinner, druns, doutcome, dseed>>
    /\ UNCHANGED <<payments, tickets, hvars, mvars, due, deliveries, ticks,
                   creditCommits, settled>>
    /\ UNCHANGED xvars

\* a rollover that closes the round as rolled_over and opens the next one
DrawCheckBankClosing(d) ==
    /\ dpc[d] = "loaded"
    /\ LET total_collected == get_round_total_collected(payments, dround[d])
       IN  IF BankNotMet(total_collected, PRIZE_USD)
           THEN /\ rounds' = {IF r.id = dround[d]
                               THEN [r EXCEPT !.is_active = FALSE, !.status = "rolled_over"]
                               ELSE r : r \in rounds}
                              \cup {NewRound(NextRoundId, PRIZE_USD)}
                /\ EndRun(d, "rolled_over")
           ELSE /\ dpc' = [dpc EXCEPT ![d] = "participants"]
                /\ dtotal' = [dtotal EXCEPT ![d] = total_collected]
                /\ UNCHANGED <<rounds, dround, dwinner, druns, doutcome, dseed>>
    /\ UNCHANGED <<payments, tickets, hvars, mvars, due, deliveries, ticks,
                   creditCommits, settled>>
    /\ UNCHANGED xvars

\* total_collected = await get_round_total_collected(...); below the prize
\* the rollover is announced, the session commits and the draw returns
DrawCheckBank(d) ==
    /\ dpc[d] = "loaded"
    /\ LET total_collected == get_round_total_collected(payments, dround[d])
       IN  IF BankNotMet(total_collected, PRIZE_USD)
           THEN EndRun(d, "rolled_over")
           ELSE /\ dpc' = [dpc EXCEPT ![d] = "participants"]
                /\ dtotal' = [dtotal EXCEPT ![d] = total_collected]
                /\ UNCHANGED <<dround, dwinner, druns, doutcome, dseed>>
    /\ UNCHANGED <<ledger, hvars, mvars, due, deliveries, ticks,
                   creditCommits, settled>>
    /\ UNCHANGED xvars

\* participants = await get_round_participants(...); none: return;
\* winner_id = select_winner(participants)
DrawSelect(d) ==
    /\ dpc[d] = "participants"
    /\ \E participants \in get_round_participants(tickets, dround[d]) :
          IF participants = <<>>
          THEN EndRun(d, "no_participants")
          ELSE \E win_index \in 0 .. (SumCounts(participants) - 1) :
                  /\ dpc' = [dpc EXCEPT ![d] = "selected"]
                  /\ dwinner' = [dwinner EXCEPT ![d] =
                                   select_winner(participants, win_index)]
                  /\ UNCHANGED <<dround, dtotal, druns, doutcome, dseed>>
    /\ UNCHANGED <<ledger, hvars, mvars, due, deliveries, ticks,
                   creditCommits, settled>>
    /\ UNCHANGED xvars

\* a settlement that closes the round in a commit of its own before the payout
DrawSettleClosing(d) ==
    /\ dpc[d] = "selected"
    /\ dpc' = [dpc EXCEPT ![d] = "settled"]
    /\ settled' = [settled EXCEPT ![dround[d]] = @ + 1]
    /\ rounds' = {IF r.id = dround[d]
                  THEN [r EXCEPT !.is_active = FALSE, !.status = "finished",
                                 !.winner_id = dwinner[d]]
                  ELSE r : r \in rounds}
    /\ UNCHANGED <<payments, tickets, hvars, mvars, dround, dtotal,
                   dwinner, druns, doutcome, dseed, due, deliveries,
                   ticks, creditCommits>>
    /\ UNCHANGED xvars

\* the winner is loaded; await process_winner_payout(...); await announce_winner(...)
DrawSettle(d) ==
    /\ dpc[d] = "selected"
    /\ dpc' = [dpc EXCEPT ![d] = "settled"]
    /\ settled' = [settled EXCEPT ![dround[d]] = @ + 1]
    /\ UNCHANGED <<ledger, hvars, mvars, dround, dtotal, dwinner, druns,
                   doutcome, dseed, due, deliveries, ticks,
                   creditCommits>>
    /\ UNCHANGED xvars

\* finish_round(session, round_id, winner_id): the round is closed with its winner
finish_round(rs, round_id, winner_id) ==
    {IF r.id = round_id
     THEN [r EXCEPT !.is_active = FALSE, !.status = "finished", !.winner_id = winner_id]
     ELSE r : r \in rs}

\* if finish_round: ...; if create_new_round: ...; await session.commit()
DrawFinalize(d) ==
    /\ dpc[d] = "settled"
    /\ LET finished == IF finish_round_available
                       THEN finish_round(rounds, dround[d], dwinner[d])
                       ELSE rounds
       IN  IF create_new_round_available
           THEN rounds' = finished \cup {NewRound(NextRoundId, PRIZE_USD)}
           ELSE rounds' = finished
    /\ EndRun(d, "completed")
    /\ UNCHANGED <<payments, tickets, hvars, mvars, due, deliveries, ticks,
                   creditCommits, settled>>
    /\ UNCHANGED xvars

\* a failed run that is started again
DrawFailRestart(d) ==
    /\ dpc[d] \in {"seeded", "loaded", "participants", "selected", "settled"}
    /\ dpc' = [dpc EXCEPT ![d] = "start"]
    /\ UNCHANGED <<ledger, hvars, mvars, dround, dtotal, dwinner, druns,
                   doutcome, dseed, due, deliveries, ticks, creditCommits, settled>>
    /\ UNCHANGED xvars

\* except Exception: await session.rollback(); raise
DrawFail(d) ==
    /\ dpc[d] \in {"seeded", "loaded", "participants", "selected", "settled"}
    /\ EndRun(d, "failed")
    /\ UNCHANGED <<ledger, hvars, mvars, due, deliveries, ticks,
                   creditCommits, settled>>
    /\ UNCHANGED xvars

\* ---------------------------------------------------------- the scheduler
\* the number of running instances of job "weekly_lottery_draw"
RunningInstances == Cardinality({d \in Draws : dpc[d] # "idle"})

\* the cron trigger reaches a fire time
SchedulerTick ==
    /\ ticks < MaxTicks
    /\ ticks' = ticks + 1
    /\ due' = due + 1
    /\ UNCHANGED <<ledger, hvars, mvars, dvars, deliveries,
                   creditCommits, settled>>
    /\ UNCHANGED xvars

\* the scheduler wakes up: the due run times are collapsed to one when
\* coalesce is set, and the job is submitted unless max_instances are running
SchedulerProcess ==
    /\ due > 0
    /\ due' = 0
    /\ IF RunningInstances >= max_instances
       THEN UNCHANGED dvars
       ELSE LET d == CHOOSE x \in Draws : dpc[x] = "idle" IN
            /\ dpc' = [dpc EXCEPT ![d] = "start"]
            /\ druns' = [druns EXCEPT ![d] = IF coalesce THEN 1 ELSE due]
            /\ UNCHANGED <<dround, dtotal, dwinner, doutcome, dseed>>
    /\ UNCHANGED <<ledger, hvars, mvars, deliveries, ticks,
                   creditCommits, settled>>
    /\ UNCHANGED xvars

\* ------------------------------------------------------ winner selection
\* the states of the generator behind random.seed / random.randrange
RngStates == 0 .. MaxRngState

\* random.seed(btc_hash) with a string: the state is a function of the string
SeedState(btc_hash) == IF btc_hash = "aa" THEN 4 ELSE 9

\* a generator that ignores the hash it is given
random_seed_unseeded(btc_hash) == [known |-> FALSE, state |-> 0]

\* random.seed() takes the state from the system's entropy; random.seed(btc_hash)
\* fixes it
random_seed(btc_hash) ==
    IF btc_hash = NoHash THEN [known |-> FALSE, state |-> 0]
    ELSE [known |-> TRUE, state |-> SeedState(btc_hash)]

\* the states the generator may be in
GeneratorStates(g) == IF g.known THEN {g.state} ELSE RngStates

\* random.randrange(n) is a function of the generator's state, which it advances
randrange(state, n) == state % n
advance(state) == (5 * state + 3) % (MaxRngState + 1)

\* the lists select_winner can be called with: (user_id, ticket_count) pairs
ParticipantLists ==
    UNION {UNION {{[i \in 1 .. Cardinality(S) |-> <<f[i], c[i]>>] :
                      c \in [1 .. Cardinality(S) -> 0 .. MaxTicketCount]} :
                  f \in Orderings(S)} :
           S \in SUBSET Users}

\* the lists get_round_participants can return: every group has a ticket
StoreRows(participants) ==
    \A i \in 1 .. Len(participants) : participants[i][2] >= 1

\* an invalid input that is not reported
InvalidInputIgnored == ""

\* raise ValueError("No tickets found for participants")
InvalidInput == "ValueError"

\* if total_tickets == 0
NoTickets(total_tickets) == total_tickets = 0

NoCall == [seed |-> NoHash, participants |-> <<>>, win_index |-> 0,
           raised |-> "", winner |-> NoId, repeated |-> FALSE]

\* btc_hash = await get_latest_bitcoin_block_hash(); random.seed(btc_hash),
\* or random.seed() without a hash
RandomSeed ==
    /\ spc = "idle"
    /\ \E btc_hash \in Hashes \cup {NoHash} :
          /\ sseed' = btc_hash
          /\ rng' = random_seed(btc_hash)
    /\ spc' = "seeded"
    /\ UNCHANGED <<scall, ledger, hvars, mvars, dvars, due, deliveries, ticks,
                   creditCommits, settled, ovars, pvars, qvars>>

\* winner_id = select_winner(participants); repeated is a history field: the
\* call has the seed and the list of the call before it
SelectWinnerCall ==
    /\ spc = "seeded"
    /\ \E participants \in ParticipantLists, state \in GeneratorStates(rng) :
          LET total_tickets == SumCounts(participants)
              repeated == /\ scall # NoCall
                          /\ scall.seed = sseed
                          /\ scall.participants = participants
          IN  IF NoTickets(total_tickets)
              THEN /\ scall' = [seed |-> sseed, participants |-> participants,
                                win_index |-> 0, raised |-> InvalidInput,
                                winner |-> NoId, repeated |-> repeated]
                   /\ UNCHANGED rng
              ELSE LET win_index == randrange(state, total_tickets) IN
                   /\ scall' = [seed |-> sseed, participants |-> participants,
                                win_index |-> win_index, raised |-> "",
                                winner |-> select_winner(participants, win_index),
                                repeated |-> repeated]
                   /\ rng' = [known |-> TRUE, state |-> advance(state)]
    /\ spc' = "idle"
    /\ UNCHANGED <<sseed, ledger, hvars, mvars, dvars, due, deliveries, ticks,
                   creditCommits, settled, ovars, pvars, qvars>>

\* ------------------------------------------------------------ the oracle
\* what a request to a source can produce: an exception (timeout, request or
\* HTTP error, undecodable body), a body without a valid hash, or a hash in
\* lower or upper case
Responses == {"error", "junk", "aa", "AA", "bb"}

\* _is_valid_hash: 64 hexadecimal characters of either case
is_valid_hash(value) == value \in {"aa", "AA", "bb"}

\* _normalize_hash: value.strip().lower()
normalize_hash(value) == IF value = "AA" THEN "aa" ELSE value

\* the parser and the validation of one response: the normalized hash, or None
ParsedHash(response) ==
    IF is_valid_hash(response) /\ is_valid_hash(normalize_hash(response))
    THEN normalize_hash(response)
    ELSE NoHash

\* a client that gives up after its first source
SourcesExhaustedEarly(source) == source > 1

\* for api_url in apis: the loop has run past the last source
SourcesExhausted(source) == source > NumSources

\* a loop that allows one attempt more
RetryAgainOnceMore(attempt) == attempt <= retries + 1

\* while attempt <= retries
RetryAgain(attempt) == attempt <= retries

\* a cache whose value never expires
CacheHitAtAnyAge == cache.value # NoHash

\* if _CACHE_VALUE and (now - _CACHE_TS) < _CACHE_TTL_SEC
CacheHit == cache.value # NoHash /\ (clock - cache.ts) < CACHE_TTL_SEC

\* time passes
ClockTick ==
    /\ clock < MaxClock
    /\ clock' = clock + 1
    /\ UNCHANGED <<cache, opc, onow, osrc, oattempt, olog, oresult>>
    /\ UNCHANGED <<qvars, svars, pvars, ledger, hvars, mvars, dvars, due, deliveries,
                   ticks, creditCommits, settled>>

\* get_latest_bitcoin_block_hash(): a cache hit returns at once, otherwise the
\* loop over the sources starts
OracleCall ==
    /\ opc = "idle"
    /\ olog' = <<>>
    /\ IF CacheHit
       THEN /\ oresult' = [value |-> cache.value, from |-> "cache"]
            /\ UNCHANGED <<opc, onow, osrc, oattempt>>
       ELSE /\ opc' = "fetching"
            /\ onow' = clock
            /\ osrc' = 1
            /\ oattempt' = 0
            /\ oresult' = [value |-> NoHash, from |-> "none"]
    /\ UNCHANGED <<cache, clock>>
    /\ UNCHANGED <<qvars, svars, pvars, ledger, hvars, mvars, dvars, due, deliveries,
                   ticks, creditCommits, settled>>

\* one pass of the while loop of _fetch_with_retries: a request, its parsing,
\* and either the return of the hash through get_latest_bitcoin_block_hash
\* (which fills the cache) or the next attempt, the next source, or None
OracleRequest ==
    /\ opc = "fetching"
    /\ \E response \in Responses :
          LET norm == ParsedHash(response)
              attempt == oattempt + 1
              source == IF RetryAgain(attempt) THEN osrc ELSE osrc + 1
          IN  /\ olog' = Append(olog, <<osrc, oattempt, norm>>)
              /\ IF norm # NoHash
                 THEN /\ cache' = [value |-> norm, ts |-> onow]
                      /\ oresult' = [value |-> norm, from |-> "source"]
                      /\ opc' = "idle"
                      /\ UNCHANGED <<osrc, oattempt>>
                 ELSE /\ UNCHANGED cache
                      /\ osrc' = source
                      /\ oattempt' = (IF RetryAgain(attempt) THEN attempt ELSE 0)
                      /\ IF SourcesExhausted(source)
                         THEN /\ oresult' = [value |-> NoHash, from |-> "exhausted"]
                              /\ opc' = "idle"
                         ELSE UNCHANGED <<oresult, opc>>
    /\ UNCHANGED <<clock, onow>>
    /\ UNCHANGED <<qvars, svars, pvars, ledger, hvars, mvars, dvars, due, deliveries,
                   ticks, creditCommits, settled>>

\* ------------------------------------------------- the payout settlement
\* process_winner_payout reads its arguments and the environment, talks to the
\* payout gateway and to Telegram, and reads and writes nothing of the ledger.

\* the keys of SUPPORTED_CURRENCIES
SUPPORTED_CURRENCIES == {"hbar", "trx", "xrp"}

\* str.upper() on the currency codes that occur
upper(code) ==
    CASE code = "hbar" -> "HBAR"
      [] code = "trx"  -> "TRX"
      [] code = "xrp"  -> "XRP"
      [] code = "doge" -> "DOGE"
      [] OTHER         -> code

\* the values of PAYOUT_METHOD in the environment
PayoutMethodEnvs == {"unset", " NowPayments", "manual"}

\* (os.getenv("PAYOUT_METHOD") or "nowpayments").strip().lower()
payout_method(env) ==
    CASE env = "unset"        -> "nowpayments"
      [] env = " NowPayments" -> "nowpayments"
      [] OTHER                -> env

\* PRIZE_PAYOUT_CURRENCY=trx in the environment, stripped and upper-cased
prize_currency == upper("trx")

\* OWNER_WALLETS=owner_a,owner_b in the environment
owner_wallets == <<"owner_a", "owner_b">>

\* winner.wallets: the currency codes of the winner's wallet rows, in the order
\* the relationship loads them; the address of a wallet is named by its code
WalletLists == {<<>>, <<"doge">>, <<"doge", "xrp">>, <<"xrp", "trx">>}

\* the wallets whose currency_code is a key of SUPPORTED_CURRENCIES
available_wallets(wallets) ==
    LET supported == SelectSeq(wallets, LAMBDA code : code \in SUPPORTED_CURRENCIES)
    IN  [i \in 1 .. Len(supported) |->
            [currency |-> upper(supported[i]), address |-> supported[i]]]

NoWallet == [currency |-> "", address |-> ""]

\* the first available wallet whatever its currency
winner_wallet_first(available) ==
    IF available # <<>> THEN available[1] ELSE NoWallet

\* next(w for w in available_wallets if w["currency"].upper() == prize_currency),
\* else available_wallets[0], else None
winner_wallet(available) ==
    IF \E i \in 1 .. Len(available) : available[i].currency = prize_currency
    THEN available[CHOOSE i \in 1 .. Len(available) :
                      /\ available[i].currency = prize_currency
                      /\ \A j \in 1 .. (i - 1) : available[j].currency # prize_currency]
    ELSE IF available # <<>> THEN available[1] ELSE NoWallet

\* a key that changes with every settlement attempt
idemp_win_per_attempt(round_id) ==
    "lottery:" \o ToString(round_id) \o ":winner:" \o ToString(settlements)

\* idemp_win = f"lottery:{round_id}:winner"
idemp_win(round_id) == "lottery:" \o ToString(round_id) \o ":winner"

\* a key that leaves out the index of the address
idemp_owner_shared(round_id, idx) == "lottery:" \o ToString(round_id) \o ":owner"

\* idemp_owner = f"lottery:{round_id}:owner:{idx}"
idemp_owner(round_id, idx) ==
    "lottery:" \o ToString(round_id) \o ":owner:" \o ToString(idx)

\* what one request to the provider can come to: a receipt, an HTTP error, an
\* exception before the provider acted, an exception after it acted
GatewayOutcomes == {"ok", "http_error", "timeout", "timeout_executed"}

\* now_payments_api.create_payout_single(..., idempotency_key=key) against a
\* provider that executes one payout per key: the store of executed payouts
\* after the request, and whether the caller got a receipt (else None).
\* round_id, role and idx of a stored payout are history fields.
create_payout_single(store, key, address, round_id, role, idx, outcome) ==
    LET known == \E r \in store : r.key = key
        payout == [key |-> key, address |-> address, round_id |-> round_id,
                   role |-> role, idx |-> idx]
    IN  [store   |-> IF ~known /\ outcome \in {"ok", "timeout_executed"}
                     THEN store \cup {payout} ELSE store,
         receipt |-> outcome = "ok"]

RECURSIVE OwnerPayouts(_, _, _, _)
\* for idx, addr in enumerate(owner_wallets, start=1): one payout each; a
\* failed one is logged and the loop goes on
OwnerPayouts(store, round_id, idx, outcomes) ==
    IF idx > Len(owner_wallets) THEN store
    ELSE OwnerPayouts(
            create_payout_single(store, idemp_owner(round_id, idx),
                                 owner_wallets[idx], round_id, "owner", idx,
                                 outcomes[idx]).store,
            round_id, idx + 1, outcomes)

\* the requests of the loop over the owner wallets
OwnerRequests(round_id) ==
    {[round_id |-> round_id, role |-> "owner", idx |-> idx,
      key |-> idemp_owner(round_id, idx)] : idx \in 1 .. Len(owner_wallets)}

\* a settlement that asks the gateway whenever automatic payouts are enabled
ManualFlowMethodOnly(method, wallet) == method # "nowpayments"

\* if payout_method != "nowpayments" or not winner_wallet
ManualFlow(method, wallet) == method # "nowpayments" \/ wallet = NoWallet

\* a settlement that lets the failure of the payout escape to the draw
after_failed_payout_raise == "raise"

\* if payout_res is None: log, await _notify_manual_payout(...), return
after_failed_payout == "fallback"

\* the rounds process_winner_payout is called for
SettlementRounds == {r \in RoundIds : r <= MaxSettlements}

\* await process_winner_payout(bot, winner, btc_hash, prize_usd,
\* total_collected, round_id): the manual flow without a wallet or with
\* automatic payouts disabled; else the winner payout, the manual flow when it
\* yields no receipt, and the payouts of the leftover to the owners.
\* delivered: whether bot.send_message of the manual flow went through;
\* resent is a history field: the keys of this call that were sent before.
ProcessWinnerPayout ==
    /\ settlements < MaxSettlements
    /\ settlements' = settlements + 1
    /\ \E round_id \in SettlementRounds, winner \in Users,
          wallets \in WalletLists, env \in PayoutMethodEnvs :
          LET method == payout_method(env)
              wallet == winner_wallet(available_wallets(wallets))
              key    == idemp_win(round_id)
              winreq == [round_id |-> round_id, role |-> "winner", idx |-> 0,
                         key |-> key]
              before == {q.key : q \in requests}
              ownkeys == [idx \in 1 .. Len(owner_wallets) |->
                             idemp_owner(round_id, idx)]
              call   == [round_id |-> round_id, winner |-> winner,
                         env |-> env, wallets |-> wallets,
                         wallet |-> wallet.address,
                         path |-> "none", winner_res |-> "none",
                         sent |-> <<>>, resent |-> {}, manual |-> FALSE,
                         delivered |-> FALSE, raised |-> FALSE]
          IN  IF ManualFlow(method, wallet)
              THEN \E delivered \in BOOLEAN :
                      /\ pcall' = [call EXCEPT !.path = "manual", !.manual = TRUE,
                                               !.delivered = delivered]
                      /\ UNCHANGED <<receipts, requests>>
              ELSE \E outcome \in GatewayOutcomes :
                      LET res == create_payout_single(receipts, key, wallet.address,
                                                      round_id, "winner", 0, outcome)
                      IN  IF ~res.receipt
                          THEN \E delivered \in BOOLEAN :
                                  LET path == after_failed_payout IN
                                  /\ pcall' = [call EXCEPT
                                                 !.path = path,
                                                 !.manual = (path = "fallback"),
                                                 !.raised = (path = "raise"),
                                                 !.delivered =
                                                    (path = "fallback" /\ delivered),
                                                 !.winner_res = "None",
                                                 !.sent = <<key>>,
                                                 !.resent = {key} \cap before]
                                  /\ receipts' = res.store
                                  /\ requests' = requests \cup {winreq}
                          ELSE \E total_collected \in {PRIZE_USD, PRIZE_USD + PaymentAmount} :
                                  LET leftover == IF total_collected > PRIZE_USD
                                                  THEN total_collected - PRIZE_USD
                                                  ELSE 0
                                  IN  IF leftover > 0 /\ owner_wallets # <<>>
                                      THEN \E outcomes \in [1 .. Len(owner_wallets) -> GatewayOutcomes] :
                                              /\ pcall' = [call EXCEPT
                                                             !.path = "paid",
                                                             !.winner_res = "receipt",
                                                             !.sent = <<key>> \o ownkeys,
                                                             !.resent =
                                                                ({key} \cup
                                                                 {ownkeys[i] : i \in DOMAIN ownkeys})
                                                                \cap before]
                                              /\ receipts' = OwnerPayouts(res.store, round_id, 1, outcomes)
                                              /\ requests' = requests \cup {winreq}
                                                                \cup OwnerRequests(round_id)
                                      ELSE /\ pcall' = [call EXCEPT
                                                          !.path = "paid",
                                                          !.winner_res = "receipt",
                                                          !.sent = <<key>>,
                                                          !.resent = {key} \cap before]
                                           /\ receipts' = res.store
                                           /\ requests' = requests \cup {winreq}
    /\ UNCHANGED <<qvars, svars, ovars, ledger, hvars, mvars, dvars, due, deliveries,
                   ticks, creditCommits, settled>>

\* ------------------------------------------------ the leftover distribution
\* float(round(leftover / float(len(owner_wallets)), 2)) in cents: the nearest
\* cent; when the quotient lies half-way between two cents the result depends
\* on the binary value of the quotient and is either of the two
Shares(leftover, owners) ==
    LET q == leftover \div owners
        r == leftover % owners
    IN  IF 2 * r > owners THEN {q + 1}
        ELSE IF 2 * r < owners THEN {q}
        ELSE {q, q + 1}

\* if leftover > 0 and owner_wallets: share = ...; one create_payout_single
\* of amount share for every address
DistributeLeftover ==
    /\ \E leftover \in 0 .. MaxLeftoverCents, owners \in 0 .. MaxOwners :
          IF leftover > 0 /\ owners > 0
          THEN \E share \in Shares(leftover, owners) :
                  distribution' = [leftover |-> leftover, owners |-> owners,
                                   share |-> share, sent |-> owners]
          ELSE distribution' = [leftover |-> leftover, owners |-> owners,
                                share |-> 0, sent |-> 0]
    /\ UNCHANGED <<ledger, hvars, mvars, dvars, due, deliveries, ticks,
                   creditCommits, settled, svars, ovars, pvars, invoices>>

\* ------------------------------------------------------ invoice creation
\* the values of NOWPAYMENTS_API_KEY
ApiKeys == {"", "development_default", "key"}

\* the currency codes a callback "currency_<code>" can carry
CallbackCurrencies == SUPPORTED_CURRENCIES \cup {"doge"}

\* what the provider answers to POST /payment
ProviderOutcomes == {"invoice", "http_error", "exception"}

\* NowPaymentsAPI.create_payment: None without an API key, None when
\* pay_currency.upper() is not a key of SUPPORTED_CURRENCIES, else the
\* provider's invoice or None
create_payment(api_key, pay_currency, provider) ==
    IF api_key = "" \/ api_key = "development_default" THEN "no_api_key"
    ELSE IF upper(pay_currency) \notin SUPPORTED_CURRENCIES THEN "unsupported_currency"
    ELSE IF provider = "invoice" THEN "invoice"
    ELSE "provider_failure"

\* process_currency_choice up to the result of payments.create_payment
CurrencyChoice ==
    /\ Cardinality(invoices) < MaxInvoiceCalls
    /\ \E currency_code \in CallbackCurrencies, api_key \in ApiKeys,
          provider \in ProviderOutcomes :
          invoices' = invoices \cup
              {[currency |-> currency_code, api_key |-> api_key,
                result |-> IF currency_code \notin SUPPORTED_CURRENCIES
                           THEN "invalid_currency"
                           ELSE create_payment(api_key, currency_code, provider)]}
    /\ UNCHANGED <<ledger, hvars, mvars, dvars, due, deliveries, ticks,
                   creditCommits, settled, svars, ovars, pvars, distribution>>

\* ------------------------------------------------------- specifications
MenuStep(m)  == MenuGetOrCreate(m) \/ MenuCommit(m) \/ MenuRollback(m)
IpnStep(h)   == IpnBegin(h) \/ IpnProcess(h) \/ IpnCommit(h) \/ IpnRollback(h)
DrawStep(d)  == \/ DrawSeed(d) \/ DrawLoadRound(d) \/ DrawCheckBank(d)
                \/ DrawSelect(d) \/ DrawSettle(d) \/ DrawFinalize(d)
                \/ DrawFail(d)

\* every handler, concurrently
Next ==
    \/ \E m \in Menus : MenuStep(m)
    \/ \E u \in Users : Purchase(u)
    \/ \E h \in Handlers : IpnStep(h)
    \/ \E d \in Draws : DrawStep(d)
    \/ SchedulerTick
    \/ SchedulerProcess
    \/ RandomSeed
    \/ SelectWinnerCall
    \/ ClockTick
    \/ OracleCall
    \/ OracleRequest
    \/ ProcessWinnerPayout
    \/ DistributeLeftover
    \/ CurrencyChoice

Spec == Init /\ [][Next]_vars

\* the web and bot handlers without the scheduled job
NextLedger ==
    \/ \E m \in Menus : MenuStep(m)
    \/ \E u \in Users : Purchase(u)
    \/ \E h \in Handlers : IpnStep(h)

SpecLedger == Init /\ [][NextLedger]_vars

\* IPN requests delivered one after the other
NextSequential ==
    \/ \E m \in Menus : MenuStep(m)
    \/ \E u \in Users : Purchase(u)
    \/ IpnStep("h1")

SpecSequential == Init /\ [][NextSequential]_vars

\* the scheduled job next to one bot update and one IPN request at a time
NextDraw ==
    \/ MenuStep("m1")
    \/ \E u \in Users : Purchase(u)
    \/ IpnStep("h1")
    \/ \E d \in Draws : DrawStep(d)
    \/ SchedulerTick
    \/ SchedulerProcess

SpecDraw == Init /\ [][NextDraw]_vars

\* the store the scheduler finds when the process starts: empty, or one round
\* with one payment of user 1 that is waiting, failed, or confirmed with its
\* tickets
InitScheduled ==
    /\ \/ /\ rounds = {}
          /\ payments = {}
          /\ tickets = EmptyBag
       \/ /\ rounds = {NewRound(1, PRIZE_USD)}
          /\ \E st \in {"waiting", "failed"} :
                payments = {[NewPayment(1, 1, 1, PaymentAmount) EXCEPT !.status = st]}
          /\ tickets = EmptyBag
       \/ /\ rounds = {NewRound(1, PRIZE_USD)}
          /\ payments = {[NewPayment(1, 1, 1, PaymentAmount) EXCEPT !.status = "confirmed"]}
          /\ tickets = [t \in {NewTicket(1, 1, 1)} |-> TicketCountFor(PaymentAmount)]
    /\ InitProcesses

\* the scheduled draw alone
NextScheduled ==
    \/ \E d \in Draws : DrawStep(d)
    \/ SchedulerTick
    \/ SchedulerProcess

\* the event loop resumes the draw job whenever the call it awaits has
\* returned or timed out
SpecScheduled ==
    /\ InitScheduled
    /\ [][NextScheduled]_vars
    /\ \A d \in Draws : WF_vars(DrawStep(d))

\* the seeding of the generator and the selection of a winner
NextSelect ==
    \/ RandomSeed
    \/ SelectWinnerCall

SpecSelect == Init /\ [][NextSelect]_vars

\* calls of the oracle client as time passes
NextOracle ==
    \/ ClockTick
    \/ OracleCall
    \/ OracleRequest

SpecOracle == Init /\ [][NextOracle]_vars

\* the store after one menu rendering and one purchase, and possibly one IPN
\* delivery with payment_status "failed" (the handler commits that status)
InitCredit ==
    /\ rounds = {NewRound(1, PRIZE_USD)}
    /\ \E st \in {"waiting", "failed"} :
          payments = {[NewPayment(1, 1, 1, PaymentAmount) EXCEPT !.status = st]}
    /\ tickets = EmptyBag
    /\ InitProcesses

\* concurrent IPN requests for the payment of that store
NextCredit == \E h \in Handlers : IpnStep(h)

SpecCredit == InitCredit /\ [][NextCredit]_vars

\* concurrent IPN requests for the payment of that store next to the
\* scheduled job
NextRace ==
    \/ \E h \in Handlers : IpnStep(h)
    \/ \E d \in Draws : DrawStep(d)
    \/ SchedulerTick
    \/ SchedulerProcess

SpecRace == InitCredit /\ [][NextRace]_vars

\* settlements of rounds, one after the other
NextPayout == ProcessWinnerPayout

SpecPayout == Init /\ [][NextPayout]_vars

\* leftover distributions, one after the other
NextShares == DistributeLeftover

SpecShares == Init /\ [][NextShares]_vars

\* currency choices in the purchase dialogue, one after the other
NextInvoice == CurrencyChoice

SpecInvoice == Init /\ [][NextInvoice]_vars


\* ================================================================ claims
\* the draw job in slot d takes a step
DrawMoves(d) == dpc'[d] # dpc[d]

\* the run in slot d ends in this step
RunEnds(d) == DrawMoves(d) /\ dpc'[d] \in {"idle", "start"}

\* C1: IPN requests delivered one after the other credit a payment at most
\* once: once a payment is confirmed or finished, no later step changes its
\* status or adds a ticket for it, and no payment is credited by two commits.
C1_SequentialDeliveryCreditsOnce ==
    /\ [](\A pid \in PaymentIds : creditCommits[pid] <= 1)
    /\ [][\A p \in payments :
             p.status \in TerminalSuccess =>
                /\ p \in payments'
                /\ TicketsOfPayment(tickets', p.id) = TicketsOfPayment(tickets, p.id)]_vars

\* a confirmation credited two tickets and a later delivery was ignored
C1_Witness ==
    /\ hresp["h1"] = "duplicate"
    /\ Cardinality(payments) = 1
    /\ \E p \in payments : /\ p.status \in TerminalSuccess
                           /\ TicketsOfPayment(tickets, p.id) = 2
                           /\ creditCommits[p.id] = 1

\* C2: concurrent IPN requests for one payment never both commit a ticket
\* creation: the tickets of a payment never exceed one delivery's count.
C2_NoConcurrentDoubleCredit ==
    \A pid \in PaymentIds :
        /\ creditCommits[pid] <= 1
        /\ TicketsOfPayment(tickets, pid) <= TicketCountFor(PaymentAmount)

\* C3: a draw that completes on a round with a met bank and participants
\* leaves that round finished with its winner and a new active round with
\* the configured prize.
C3_CompletedDrawFinishesRound ==
    [][\A d \in Draws :
          (dpc[d] = "settled" /\ RunEnds(d) /\ doutcome'[d] = "completed") =>
             /\ \E r \in rounds' : /\ r.id = dround[d]
                                   /\ ~r.is_active
                                   /\ r.winner_id = dwinner[d]
             /\ \E r \in rounds' \ rounds : /\ r.is_active
                                            /\ r.prize_amount = PRIZE_USD]_vars

\* C4: no round is settled (winner selected and paid out) more than once.
C4_RoundDrawnAtMostOnce ==
    \A r \in RoundIds : settled[r] <= 1

\* C5: at most one round is active in every reachable state.
C5_AtMostOneActiveRound ==
    Cardinality(ActiveRounds(rounds)) <= 1

\* C6: exactly one round is active in every reachable state, the state
\* right after database initialization included.
C6_ExactlyOneActiveRound ==
    Cardinality(ActiveRounds(rounds)) = 1

\* C7: when the draw finds the bank of the active round below the prize, its
\* step changes no round, payment or ticket, creates no round, settles
\* nothing, and the run ends without selecting a winner.
C7_RolloverLeavesLedger ==
    [][\A d \in Draws :
          (/\ dpc[d] = "loaded"
           /\ DrawMoves(d)
           /\ get_round_total_collected(payments, dround[d]) < PRIZE_USD) =>
             /\ UNCHANGED <<rounds, payments, tickets, settled>>
             /\ RunEnds(d)
             /\ dwinner'[d] = NoId]_vars

\* a round with tickets and a bank below the prize was rolled over and is
\* still active
C7_Witness ==
    \E d \in Draws, r \in ActiveRounds(rounds) :
        /\ doutcome[d] = "rolled_over"
        /\ dpc[d] = "idle"
        /\ ParticipantUsers(tickets, r.id) # {}
        /\ get_round_total_collected(payments, r.id) < PRIZE_USD

\* C8: the threshold is inclusive: with a bank equal to the prize the draw
\* does not roll over but goes on to load the participants, and with
\* participants it selects one of them (unless the step raises).
C8_ThresholdInclusive ==
    [][\A d \in Draws :
          /\ (/\ dpc[d] = "loaded"
              /\ DrawMoves(d)
              /\ get_round_total_collected(payments, dround[d]) = PRIZE_USD) =>
                \/ dpc'[d] = "participants" /\ dtotal'[d] = PRIZE_USD
                \/ RunEnds(d) /\ doutcome'[d] = "failed"
          /\ (/\ dpc[d] = "participants"
              /\ DrawMoves(d)
              /\ dtotal[d] = PRIZE_USD
              /\ ParticipantUsers(tickets, dround[d]) # {}) =>
                \/ /\ dpc'[d] = "selected"
                   /\ dwinner'[d] \in ParticipantUsers(tickets, dround[d])
                \/ RunEnds(d) /\ doutcome'[d] = "failed"]_vars

\* a winner was selected on a bank equal to the prize
C8_Witness ==
    \E d \in Draws : /\ dpc[d] = "selected"
                     /\ dtotal[d] = PRIZE_USD
                     /\ dwinner[d] \in Users

\* C9: after the active round was loaded, no step of a draw attempt other
\* than its final commit changes a round, a payment or a ticket or creates
\* a round; so an attempt that raises leaves the ledger as it found it.
C9_FailedDrawLeavesLedger ==
    [][\A d \in Draws :
          (/\ dpc[d] \in {"loaded", "participants", "selected", "settled"}
           /\ DrawMoves(d)
           /\ ~(dpc[d] = "settled" /\ doutcome'[d] = "completed")) =>
             UNCHANGED <<rounds, payments, tickets>>]_vars

\* a draw attempt failed after the settlement of a round with tickets
C9_Witness ==
    \E d \in Draws, r \in ActiveRounds(rounds) :
        /\ doutcome[d] = "failed"
        /\ dpc[d] = "idle"
        /\ settled[r.id] >= 1
        /\ ParticipantUsers(tickets, r.id) # {}

\* C10: two runs of the draw never overlap, a trigger processed while a run
\* is in progress starts nothing and leaves nothing queued, and due fire
\* times collapse into one run.
C10_DrawsNeverOverlap ==
    /\ [](/\ RunningInstances <= 1
          /\ \A d \in Draws : druns[d] <= 1)
    /\ [][(due > 0 /\ due' = 0 /\ RunningInstances >= 1) =>
             UNCHANGED dvars]_vars

\* all fire times were processed while the first run of the job is still
\* in progress
C10_Witness ==
    /\ ticks >= 2
    /\ due = 0
    /\ \E d \in Draws : dpc[d] = "loaded" /\ druns[d] = 1
    /\ \A d \in Draws : doutcome[d] = "none"

\* select_winner was called
Called == scall # NoCall

\* the call drew an index and returned a winner
Returned == Called /\ scall.raised = ""

\* the cumulative ticket count of the first k participants
Cumulative(participants, k) == SumCounts(SubSeq(participants, 1, k))

\* the first participant in list order whose cumulative count exceeds i
FirstExceeding(participants, i) ==
    LET k == CHOOSE k \in 1 .. Len(participants) :
                /\ Cumulative(participants, k) > i
                /\ \A j \in 1 .. (k - 1) : Cumulative(participants, j) <= i
    IN  participants[k][1]

\* the participants in ascending order of participant id
SortById(participants) ==
    CHOOSE sorted \in ParticipantLists :
        /\ Len(sorted) = Len(participants)
        /\ {sorted[i] : i \in 1 .. Len(sorted)} =
           {participants[i] : i \in 1 .. Len(participants)}
        /\ \A i, j \in 1 .. Len(sorted) : i < j => sorted[i][1] < sorted[j][1]

\* C15: with a fixed seed and a list with at least one ticket, a call of
\* select_winner that repeats the seed and the list of the call before it
\* returns the winner of the call before it.
C15_SelectionDeterministic ==
    [][(/\ spc = "seeded" /\ spc' = "idle"
        /\ Called
        /\ scall'.seed \in Hashes
        /\ scall'.seed = scall.seed
        /\ scall'.participants = scall.participants
        /\ SumCounts(scall'.participants) >= 1) =>
          /\ scall'.raised = ""
          /\ scall'.winner = scall.winner
          /\ scall'.win_index = scall.win_index]_vars

\* a call repeated a seeded call on a list of two participants
C15_Witness ==
    /\ scall.repeated
    /\ scall.seed \in Hashes
    /\ Len(scall.participants) = 2
    /\ StoreRows(scall.participants)
    /\ scall.winner \in Users

\* C16: the drawn index is in [0, totalTickets) and select_winner returns the
\* first participant in list order whose cumulative ticket count exceeds it;
\* over the indices of the list a participant with k tickets wins exactly k
\* times (with 0 tickets never) and the walk always finds a winner.
C16_FirstCumulativeExceeding ==
    Returned =>
        LET participants == scall.participants
            total_tickets == SumCounts(participants)
        IN  /\ scall.win_index \in 0 .. (total_tickets - 1)
            /\ scall.winner = FirstExceeding(participants, scall.win_index)
            /\ \A i \in 0 .. (total_tickets - 1) :
                  WalkWinner(participants, i, 0) # NoId
            /\ \A j \in 1 .. Len(participants) :
                  Cardinality({i \in 0 .. (total_tickets - 1) :
                                  select_winner(participants, i) = participants[j][1]})
                     = participants[j][2]

\* A has 3 tickets, B has 6, index 4 is drawn: B wins
C16_Witness ==
    /\ Returned
    /\ scall.participants = <<<<1, 3>>, <<2, 6>>>>
    /\ scall.win_index = 4
    /\ scall.winner = 2

\* C17: the winner of a seeded draw is the reference selection over the
\* participants sorted ascending by participant id, in whatever order the
\* store returned the rows.
C17_WinnerIsReferenceSelection ==
    (Returned /\ scall.seed \in Hashes /\ StoreRows(scall.participants)) =>
        scall.winner =
            select_winner(SortById(scall.participants),
                          randrange(SeedState(scall.seed),
                                    SumCounts(scall.participants)))

\* C18: a call of select_winner on a list without tickets, the empty list
\* included, raises the invalid-input error and returns no winner.
C18_NoTicketsIsInvalidInput ==
    (Called /\ SumCounts(scall.participants) = 0) =>
        /\ scall.raised = "ValueError"
        /\ scall.winner = NoId

\* select_winner was called on the empty list and raised
C18_Witness ==
    /\ Called
    /\ scall.participants = <<>>
    /\ scall.raised = "ValueError"

\* the requests of the log are the sources in list order, each with its
\* attempts 0 .. retries in order
LogInOrder ==
    /\ olog # <<>> => olog[1][1] = 1 /\ olog[1][2] = 0
    /\ \A i \in 1 .. (Len(olog) - 1) :
          \/ olog[i + 1][1] = olog[i][1] /\ olog[i + 1][2] = olog[i][2] + 1
          \/ /\ olog[i + 1][1] = olog[i][1] + 1
             /\ olog[i][2] = retries
             /\ olog[i + 1][2] = 0

\* C20: the requests of a call go through the sources in list order; no
\* request follows one that yielded a valid hash; a value returned from the
\* sources is the hash of the last, and only valid, request; unavailable is
\* returned only after the initial attempt and every retry failed on every
\* source.
C20_FirstValidSourceWins ==
    /\ LogInOrder
    /\ \A i \in 1 .. Len(olog) :
          olog[i][3] # NoHash => (i = Len(olog) /\ opc = "idle")
    /\ oresult.from = "source" =>
          /\ olog # <<>>
          /\ olog[Len(olog)][3] = oresult.value
          /\ oresult.value \in Hashes
    /\ oresult.from = "exhausted" =>
          /\ oresult.value = NoHash
          /\ \A source \in 1 .. NumSources, attempt \in 0 .. retries :
                \E i \in 1 .. Len(olog) : olog[i] = <<source, attempt, NoHash>>

\* the first source failed three times and the second answered on its first retry
C20_Witness ==
    /\ oresult.from = "source"
    /\ Len(olog) = 5
    /\ olog[5] = <<2, 1, oresult.value>>

\* process_winner_payout was called
Settled == pcall.path # "none"

\* C11: the key of the winner payout is a function of the round id, one to
\* one: two winner requests carry the same key exactly when they are for the
\* same round; and the provider, executing one payout per key, has at most
\* one winner payout per round, however often the round is settled.
C11_WinnerKeyPerRound ==
    /\ \A q1, q2 \in {q \in requests : q.role = "winner"} :
          q1.key = q2.key <=> q1.round_id = q2.round_id
    /\ \A r \in RoundIds :
          Cardinality({x \in receipts : x.role = "winner" /\ x.round_id = r}) <= 1

\* a round is settled again for a winner with another wallet: the request
\* repeats the key and the provider still has the one payout of the first time
C11_Witness ==
    /\ pcall.path = "paid"
    /\ idemp_win(pcall.round_id) \in pcall.resent
    /\ \E x \in receipts : /\ x.role = "winner"
                           /\ x.round_id = pcall.round_id
                           /\ x.address # pcall.wallet

\* C12: two payout requests carry the same key exactly when they are for the
\* same round, the same role and the same index, so the keys of the owner
\* addresses of a round differ from each other and from the winner key and
\* are the same on every retry; and the provider has at most one payout per
\* round and owner address.
C12_OwnerKeysPerRoundAndIndex ==
    /\ \A q1, q2 \in requests :
          q1.key = q2.key <=>
             (q1.round_id = q2.round_id /\ q1.role = q2.role /\ q1.idx = q2.idx)
    /\ \A r \in RoundIds, i \in 1 .. Len(owner_wallets) :
          Cardinality({x \in receipts : /\ x.role = "owner"
                                        /\ x.round_id = r
                                        /\ x.address = owner_wallets[i]}) <= 1

\* the leftover of a round was distributed a second time and every owner
\* address has its one payout
C12_Witness ==
    /\ pcall.path = "paid"
    /\ \A i \in 1 .. Len(owner_wallets) :
          /\ idemp_owner(pcall.round_id, i) \in pcall.resent
          /\ \E x \in receipts : /\ x.role = "owner"
                                 /\ x.round_id = pcall.round_id
                                 /\ x.address = owner_wallets[i]

C14_ManualFlowWithoutGateway ==
    /\ [](Settled =>
            ((\/ \A i \in 1 .. Len(pcall.wallets) :
                    pcall.wallets[i] \notin SUPPORTED_CURRENCIES
              \/ pcall.env = "manual") =>
                /\ pcall.manual
                /\ pcall.path = "manual"
                /\ pcall.sent = <<>>
                /\ ~pcall.raised))
    /\ [][pcall'.path = "manual" => UNCHANGED <<receipts, requests>>]_vars

\* after a settlement that reached the gateway, one for a winner whose only
\* wallet is in an unsupported currency took the manual flow
C14_Witness ==
    /\ pcall.path = "manual"
    /\ pcall.wallets = <<"doge">>
    /\ pcall.env = "unset"
    /\ pcall.manual
    /\ requests # {}

\* the draw d was seeded without a hash from the oracle
FallbackSeeded(d) == dseed[d] = "fallback"

\* C19: an unavailable oracle never blocks the draw.  Whatever the oracle
\* returned, the first step of a run leaves the draw seeded and the run not
\* ended, and a run past its first step is seeded either by the hash or by
\* the fallback; the later steps do not read how the run was seeded.
C19_OracleNeverBlocksDraw ==
    /\ [](\A d \in Draws :
            dpc[d] \notin {"idle", "start"} =>
                dseed[d] \in {"hash", "fallback"})
    /\ [][\A d \in Draws :
            (dpc[d] = "start" /\ (DrawMoves(d) \/ druns'[d] # druns[d])) =>
                /\ dpc'[d] = "seeded"
                /\ dseed'[d] \in {"hash", "fallback"}
                /\ druns'[d] = druns[d]
                /\ doutcome'[d] = doutcome[d]]_vars

\* a run seeded by the fallback has selected a winner and settled the payout
C19_Witness ==
    \E d \in Draws : /\ FallbackSeeded(d)
                     /\ dpc[d] = "settled"
                     /\ dwinner[d] # NoId

\* the committed row of the payment pid
PaymentOf(pid) == CHOOSE p \in payments : p.id = pid

\* the request of handler h commits in this step
Commits(h) == hpc[h] = "processed" /\ hpc'[h] = "idle" /\ hresp'[h] = "ok"

\* the request of handler h is a confirmation worth at least one ticket
Creditable(h) ==
    /\ hreq[h].payment_status \in TerminalSuccess
    /\ hreq[h].price_amount \div TICKET_PRICE_USD > 0

\* the session of handler h read an active round that is not the payment's,
\* or none
RoundMismatch(h) ==
    /\ hpc[h] = "processed"
    /\ Creditable(h)
    /\ hsess[h].active_round # PaymentOf(hreq[h].payment_id).round_id

\* the tickets this step adds
NewTickets == {t \in BagToSet(tickets') : CopiesIn(t, tickets') > CopiesIn(t, tickets)}

\* C21: every ticket has the round of its payment, tickets are pending in a
\* session only when the active round that session read is the round of the
\* payment, a commit creates tickets only in that round, and a commit after
\* a mismatch (or without an active round) creates no ticket.
C21_TicketsOnlyInActiveRoundOfPayment ==
    /\ [](/\ \A t \in BagToSet(tickets) : t.round_id = PaymentOf(t.pay).round_id
          /\ \A h \in Handlers :
                hadd[h] > 0 =>
                   /\ hsess[h].active_round # NoId
                   /\ hsess[h].active_round = PaymentOf(hreq[h].payment_id).round_id)
    /\ [][\A h \in Handlers :
            Commits(h) =>
               /\ \A t \in NewTickets : t.round_id = hsess[h].active_round
               /\ RoundMismatch(h) => tickets' = tickets]_vars

\* a confirmation worth tickets met an active round that is not the
\* payment's, and no ticket is pending or committed for the payment
C21_Witness ==
    \E h \in Handlers :
        /\ RoundMismatch(h)
        /\ hsess[h].active_round # NoId
        /\ hadd[h] = 0
        /\ TicketsOfPayment(tickets, hreq[h].payment_id) = 0

\* C22: an IPN whose crediting detected a round mismatch ends without
\* mutating the ledger: the payment keeps the status it had before the
\* request and no ticket is created.
C22_RoundMismatchLeavesLedger ==
    [][\A h \in Handlers :
          (RoundMismatch(h) /\ hpc'[h] = "idle") =>
              /\ PaymentOf(hreq[h].payment_id) \in payments'
              /\ tickets' = tickets]_vars

\* C23: a commit of a confirmation whose round check did not fail creates
\* exactly floor(price_amount / TICKET_PRICE_USD) tickets, all of them for
\* the payment's user in the payment's round; with a count of 0 it creates
\* no ticket and the request is still answered as a success.
C23_CreditsFloorOfAmount ==
    [][\A h \in Handlers :
          (/\ Commits(h)
           /\ hreq[h].payment_status \in TerminalSuccess
           /\ ~RoundMismatch(h)) =>
              LET n == hreq[h].price_amount \div TICKET_PRICE_USD
                  p == PaymentOf(hreq[h].payment_id)
              IN  /\ BagCardinality(tickets') = BagCardinality(tickets) + n
                  /\ \A t \in NewTickets :
                        /\ t.user_id = p.user_id
                        /\ t.round_id = p.round_id
                        /\ t.pay = p.id
                  /\ n = 0 => tickets' = tickets
                  /\ hresp'[h] = "ok"]_vars

\* a confirmation of 1.0 USD was committed and answered: two tickets of the
\* payment's user in the payment's round, and no other ticket
C23_Witness ==
    \E h \in Handlers, p \in payments :
        /\ hpc[h] = "idle"
        /\ hresp[h] = "ok"
        /\ p.status \in TerminalSuccess
        /\ TicketCount(tickets, p.user_id, p.round_id) = 2
        /\ BagCardinality(tickets) = 2

\* the statuses a payment in status st may take next
ForwardFrom(st) ==
    IF st = "waiting" THEN PaymentStatuses
    ELSE {st}

\* C24: a payment's status only advances along waiting -> {confirmed,
\* finished, failed}: it never returns to waiting, never leaves failed and
\* never leaves the four statuses.
C24_StatusAdvancesForward ==
    /\ [](\A p \in payments : p.status \in PaymentStatuses)
    /\ [][\A p \in payments :
            \E q \in payments' : /\ q.id = p.id
                                 /\ q.status \in ForwardFrom(p.status)]_vars

\* C25: tickets come only from crediting a confirmed payment and are never
\* mutated or deleted: each ticket's (user, round) is the (user, round) of a
\* payment whose status is confirmed or finished, and no step removes a
\* ticket.
C25_TicketsOnlyFromConfirmedPayments ==
    /\ [](\A t \in BagToSet(tickets) :
            \E p \in payments : /\ p.user_id = t.user_id
                                /\ p.round_id = t.round_id
                                /\ p.status \in TerminalSuccess)
    /\ [][\A t \in BagToSet(tickets) :
            CopiesIn(t, tickets') >= CopiesIn(t, tickets)]_vars

\* C26: a draw that finds no active round creates one active round with the
\* configured prize target and stops, without a winner and without a payout.
C26_DrawWithoutRoundCreatesOne ==
    [][\A d \in Draws :
          (dpc[d] = "seeded" /\ ActiveRounds(rounds) = {} /\ DrawMoves(d)) =>
              /\ RunEnds(d)
              /\ \E r \in rounds' : /\ ActiveRounds(rounds') = {r}
                                    /\ r.prize_amount = PRIZE_USD
              /\ dwinner'[d] = NoId
              /\ settled' = settled]_vars

\* handler h answers a request with a rejection in this step
Rejects(h) ==
    /\ hpc[h] = "idle"
    /\ hresp'[h] \in {"400", "404"}
    /\ hresp'[h] # hresp[h]

\* C27: a rejected IPN request (bad or missing signature, unset secret,
\* unparsable body, missing field, non-numeric amount, unknown payment id)
\* leaves the ledger unchanged: no payment changes and no ticket is created,
\* and nothing of the request stays pending.
C27_RejectedIpnLeavesLedger ==
    [][\A h \in Handlers :
          Rejects(h) => /\ payments' = payments
                        /\ tickets' = tickets
                        /\ rounds' = rounds
                        /\ hpc'[h] = "idle"
                        /\ hadd'[h] = 0]_vars

\* a request was rejected while a payment was waiting, which still waits
\* without a ticket
C27_Witness ==
    \E h \in Handlers, p \in payments :
        /\ hresp[h] = "400"
        /\ hpc[h] = "idle"
        /\ p.status = "waiting"
        /\ TicketsOfPayment(tickets, p.id) = 0

\* the request of handler h is rolled back in this step
RollsBack(h) ==
    /\ hpc[h] \in {"updated", "processed"}
    /\ hpc'[h] = "idle"
    /\ hresp'[h] = "500"

\* C28: crediting is atomic.  A request that fails after the status was set
\* is rolled back: the committed payment and the committed tickets are what
\* they were; and no committed state has tickets of a payment whose status
\* is waiting.
C28_CreditingAtomic ==
    /\ [][\A h \in Handlers :
            RollsBack(h) => /\ payments' = payments
                            /\ tickets' = tickets]_vars
    /\ [](\A p \in payments :
            p.status = "waiting" => TicketsOfPayment(tickets, p.id) = 0)

\* the store from which the concurrent requests start is one the program
\* reaches: one round, one payment of user 1 in it, failed, no ticket
InitCreditReached ==
    /\ rounds = {NewRound(1, PRIZE_USD)}
    /\ payments = {[NewPayment(1, 1, 1, PaymentAmount) EXCEPT !.status = "failed"]}
    /\ tickets = EmptyBag
    /\ \A h \in Handlers : hpc[h] = "idle"

\* the amounts of the payments of a round that were credited as successful
SuccessfulAmounts(ps, round_id) ==
    SumAmounts({p \in ps : p.round_id = round_id /\ p.status \in TerminalSuccess})

\* C29: the bank of a round contains the amount of every payment of the
\* round whose status is confirmed or finished.
C29_BankCountsSuccessfulPayments ==
    \A r \in rounds :
        get_round_total_collected(payments, r.id) = SuccessfulAmounts(payments, r.id)

\* C30: a round whose bank has reached its prize target has at least one
\* ticket, so the draw never finds a met bank without participants.
C30_MetBankHasParticipants ==
    \A r \in rounds :
        get_round_total_collected(payments, r.id) >= r.prize_amount =>
            ParticipantUsers(tickets, r.id) # {}

\* the number of tickets of a round
RoundTickets(ts, round_id) ==
    LET rows == {t \in BagToSet(ts) : t.round_id = round_id}
    IN  BagCardinality([t \in rows |-> CopiesIn(t, ts)])

\* the winner of the round was selected by a running draw or by an earlier one
WinnerSelected(round_id) ==
    \/ settled[round_id] > 0
    \/ \E d \in Draws : dround[d] = round_id /\ dpc[d] \in {"selected", "settled"}

\* C31: no ticket is committed to a round after its winner has been
\* selected, so every ticket of the round was in the participant list the
\* winner was chosen from.
C31_NoTicketAfterSelection ==
    [][\A r \in RoundIds :
          WinnerSelected(r) =>
              RoundTickets(tickets', r) = RoundTickets(tickets, r)]_vars

\* the requests of the current or last oracle call that went to a source
RequestsTo(source) == {i \in 1 .. Len(olog) : olog[i][1] = source}

\* C32: one call of the oracle client issues at most retries + 1 = 3
\* requests per source and at most 3 * NumSources requests in all; a call
\* that has issued them all has returned, with a seed or with none.
C32_OracleRequestsBounded ==
    /\ Len(olog) <= (retries + 1) * NumSources
    /\ \A source \in 1 .. NumSources :
          Cardinality(RequestsTo(source)) <= retries + 1
    /\ \A i \in 1 .. Len(olog) : olog[i][1] \in 1 .. NumSources
    /\ Len(olog) = (retries + 1) * NumSources =>
          /\ opc = "idle"
          /\ oresult.from \in {"source", "exhausted"}

\* a call has used every attempt of every source and returned without a seed
C32_Witness ==
    /\ opc = "idle"
    /\ Len(olog) = (retries + 1) * NumSources
    /\ oresult = [value |-> NoHash, from |-> "exhausted"]

\* get_latest_bitcoin_block_hash is called in this step
OracleCalled == opc = "idle" /\ clock' = clock /\ ovars' # ovars

\* the cached seed is younger than the TTL, counted from the time stamp
\* stored with it (the start of the call that fetched it)
WithinTTL == cache.value # NoHash /\ clock - cache.ts < CACHE_TTL_SEC

\* C33: the cache holds only valid, normalized seeds; a call within the TTL
\* returns the cached seed and queries no source, a call outside of it goes
\* to the sources; only a successful fetch writes the cache; and a call that
\* found every source failing returns no seed, whatever the cache holds.
C33_CacheHoldsFreshValidSeeds ==
    /\ [](cache.value # NoHash =>
            /\ is_valid_hash(cache.value)
            /\ normalize_hash(cache.value) = cache.value
            /\ cache.value \in Hashes)
    /\ [][OracleCalled =>
            IF WithinTTL
            THEN /\ oresult' = [value |-> cache.value, from |-> "cache"]
                 /\ opc' = "idle"
                 /\ olog' = <<>>
            ELSE /\ opc' = "fetching"
                 /\ oresult'.from # "cache"]_vars
    /\ [][cache' # cache =>
            /\ opc = "fetching"
            /\ oresult'.from = "source"
            /\ cache'.value = oresult'.value
            /\ cache'.value \in Hashes]_vars
    /\ [](oresult.from = "exhausted" => oresult.value = NoHash)

\* a call made after the TTL of the cached seed found every source failing
\* and returned no seed; the cache still holds the old seed
C33_Witness ==
    /\ opc = "idle"
    /\ oresult = [value |-> NoHash, from |-> "exhausted"]
    /\ cache.value \in Hashes
    /\ clock - cache.ts >= CACHE_TTL_SEC

\* C34: every run of draw_lottery ends: a draw job that was started is idle
\* again later, whatever the oracle returned and whether the run committed,
\* returned early or failed.
C34_DrawTerminates ==
    \A d \in Draws : (dpc[d] = "start") ~> (dpc[d] = "idle")

\* a run went through the settlement of a winner and has ended in the
\* final commit
C34_Witness ==
    \E d \in Draws : /\ dpc[d] = "idle"
                     /\ druns[d] = 0
                     /\ doutcome[d] = "completed"
                     /\ settled[1] > 0

\* the wallets of the winner of the last settlement that are in the preferred
\* payout currency, and those in a supported currency
PreferredWallets == {i \in DOMAIN pcall.wallets : upper(pcall.wallets[i]) = prize_currency}
SupportedWallets == {i \in DOMAIN pcall.wallets : pcall.wallets[i] \in SUPPORTED_CURRENCIES}

\* C35: a settlement picks the winner's wallet in the preferred payout
\* currency when there is one, otherwise the first wallet in a supported
\* currency; the wallet it picks and the address of every payout to a winner
\* are in a supported currency.
C35_WalletByPreferenceThenFirstSupported ==
    /\ pcall.path # "none" =>
          /\ PreferredWallets # {} => upper(pcall.wallet) = prize_currency
          /\ PreferredWallets = {} /\ SupportedWallets # {} =>
                /\ pcall.wallet = pcall.wallets[CHOOSE i \in SupportedWallets :
                                                   \A j \in SupportedWallets : i <= j]
          /\ SupportedWallets = {} => pcall.wallet = NoWallet.address
          /\ pcall.wallet # NoWallet.address => pcall.wallet \in SUPPORTED_CURRENCIES
    /\ \A r \in receipts : r.role = "winner" => r.address \in SUPPORTED_CURRENCIES

\* a prize was paid to the preferred wallet that is the winner's second one,
\* and the last settlement skipped an unsupported wallet and paid to the next
C35_Witness ==
    /\ \E r \in receipts : r.role = "winner" /\ r.address = "trx"
    /\ pcall.path = "paid"
    /\ pcall.wallets = <<"doge", "xrp">>
    /\ pcall.wallet = "xrp"

\* the "payment received" notification of the request of handler h failed
NotificationFailed(h) == hsess[h].notified = "failed"

\* C37: a failed "payment received" notification neither prevents nor undoes
\* crediting: after it the request still stands before its commit with all its
\* tickets pending and the commit can be taken, and that commit writes the
\* status of the request and the tickets and answers the IPN with success.
C37_NotificationFailureKeepsCredit ==
    /\ [](\A h \in Handlers :
            NotificationFailed(h) =>
                /\ hpc[h] = "processed"
                /\ hadd[h] = TicketCountFor(hreq[h].price_amount)
                /\ hadd[h] > 0
                /\ ENABLED IpnCommit(h))
    /\ [][\A h \in Handlers :
            NotificationFailed(h) /\ hpc[h] = "processed" /\ hpc'[h] = "idle"
                                  /\ hresp'[h] # "500" =>
                /\ hresp'[h] = "ok"
                /\ \E p \in payments' : /\ p.id = hreq[h].payment_id
                                        /\ p.status = hreq[h].payment_status
                /\ TicketsOfPayment(tickets', hreq[h].payment_id) =
                      TicketsOfPayment(tickets, hreq[h].payment_id) + hadd[h]]_vars

\* the notification of a confirmed payment failed and its tickets are pending
C37_Witness ==
    \E h \in Handlers : /\ NotificationFailed(h)
                        /\ hpc[h] = "processed"
                        /\ hreq[h].payment_status = "confirmed"
                        /\ hadd[h] = TicketCountFor(PaymentAmount)



\* C36: the shares sent to the operator addresses add up to at most the
\* leftover, for every leftover in cents and every number of addresses.
C36_SharesWithinLeftover ==
    distribution.sent * distribution.share <= distribution.leftover

\* C38: a currency choice with a code that is a key of SUPPORTED_CURRENCIES
\* and a configured API key is not rejected as an unsupported currency: it
\* comes to an invoice or to a failure of the provider.
C38_AcceptedCurrencyReachesProvider ==
    \A c \in invoices :
        c.currency \in SUPPORTED_CURRENCIES /\ c.api_key = "key" =>
            c.result \in {"invoice", "provider_failure"}

=============================================================================
